---- MODULE Spec2Model ----
(***************************************************************************)
(* A model of maison/sandbox.py: the MaisonSandbox handle (lazy session,   *)
(* command rendering, log following, line assembly, event sequence) and    *)
(* Maison.create_sandbox_for_claude (credential check, provisioning,       *)
(* install, teardown on a failed install).                                 *)
(*                                                                         *)
(* Text is a sequence of one-character strings.  The remote command's      *)
(* stdout is written over a small alphabet in which a JSON token that      *)
(* contains no newline and no blank is abbreviated to one symbol:          *)
(*    "T"  the member  "type":"text"                                       *)
(*    "R"  the member  "type":"result"                                     *)
(*    "C"  the member  "content":"hi"                                      *)
(*    "0"  the number  0                                                   *)
(*    "N"  the literal null                                                *)
(*    "x"  a character that cannot start a JSON value                      *)
(* while "{", "}", ",", " " and "\n" stand for themselves.                 *)
(***************************************************************************)
EXTENDS Integers, Sequences, FiniteSets, TLC

\* ------------------------------------------------------------------ bounds
MaxCalls == 2
MaxLines == 2

\* ------------------------------------------------------- values and helpers
None == [kind |-> "None", val |-> 0]
JInt(n) == [kind |-> "int", val |-> n]
JStr(s) == [kind |-> "str", val |-> s]
JDict(items) == [kind |-> "dict", val |-> items]

NL == "\n"
\* The backtick, which a string of this module cannot hold, is written B; B
\* is no character of any other text.
Backtick == "B"

IsWhitespace(c) == c \in {" ", NL}

RECURSIVE LStrip(_)
LStrip(s) ==
    IF s # <<>> /\ IsWhitespace(Head(s)) THEN LStrip(Tail(s)) ELSE s

RECURSIVE RStrip(_)
RStrip(s) ==
    IF s # <<>> /\ IsWhitespace(s[Len(s)])
    THEN RStrip(SubSeq(s, 1, Len(s) - 1))
    ELSE s

Strip(s) == RStrip(LStrip(s))

\* The least index of c in s, 0 when c does not occur.
Find(s, c) ==
    IF \E i \in 1..Len(s) : s[i] = c
    THEN CHOOSE i \in 1..Len(s) : s[i] = c /\ \A j \in 1..(i - 1) : s[j] # c
    ELSE 0

RECURSIVE Join(_)
Join(parts) ==
    IF parts = <<>> THEN <<>> ELSE Head(parts) \o Join(Tail(parts))

Contains(s, sub) ==
    \E i \in 1..(Len(s) - Len(sub) + 1) : SubSeq(s, i, i + Len(sub) - 1) = sub

\* dict.get(key, default) on a dict held as a set of <<key, value>> pairs.
DictGet(items, key, default) ==
    IF \E p \in items : p[1] = key
    THEN (CHOOSE p \in items : p[1] = key)[2]
    ELSE default

\* d[key] = value: a later member replaces an earlier one of the same key.
DictSet(items, key, value) ==
    {p \in items : p[1] # key} \cup {<<key, value>>}

\* ---------------------------------------------------------------- json.loads
MemberTokens == {"T", "R", "C"}

MemberOf(tok) ==
    CASE tok = "T" -> <<"type", JStr("text")>>
      [] tok = "R" -> <<"type", JStr("result")>>
      [] tok = "C" -> <<"content", JStr("hi")>>

\* The members between the braces of an object: member ("," member)*.
RECURSIVE JsonMembers(_, _)
JsonMembers(s, items) ==
    LET i == Find(s, ",")
        first == Strip(IF i = 0 THEN s ELSE SubSeq(s, 1, i - 1))
    IN  IF Len(first) # 1 \/ first[1] \notin MemberTokens
        THEN [ok |-> FALSE, val |-> None]
        ELSE LET m == MemberOf(first[1])
                 items2 == DictSet(items, m[1], m[2])
             IN  IF i = 0
                 THEN [ok |-> TRUE, val |-> JDict(items2)]
                 ELSE JsonMembers(SubSeq(s, i + 1, Len(s)), items2)

\* json.loads(s): ok = FALSE stands for json.JSONDecodeError.
JsonLoads(s) ==
    LET t == Strip(s)
    IN  IF t = <<"0">> THEN [ok |-> TRUE, val |-> JInt(0)]
        ELSE IF t = <<"N">> THEN [ok |-> TRUE, val |-> None]
        ELSE IF Len(t) >= 2 /\ t[1] = "{" /\ t[Len(t)] = "}"
        THEN LET inner == Strip(SubSeq(t, 2, Len(t) - 1))
             IN  IF inner = <<>>
                 THEN [ok |-> TRUE, val |-> JDict({})]
                 ELSE JsonMembers(inner, {})
        ELSE [ok |-> FALSE, val |-> None]

\* ------------------------------------------------------------- shlex.quote
\* The characters shlex.quote leaves alone: [A-Za-z0-9_@%+=:,./-], as far as
\* they occur in the texts of this model.
SafeChars ==
    {"a", "b", "c", "d", "e", "f", "g", "h", "i", "j", "k", "l", "m", "n",
     "o", "p", "q", "r", "s", "t", "u", "v", "w", "x", "y", "z",
     "A", "C", "E", "H", "I", "K", "N", "O", "P", "R", "T", "Y",
     "0", "_", "@", "%", "+", "=", ":", ",", ".", "/", "-"}

\* s.replace("'", "'\"'\"'")
RECURSIVE ReplaceQuote(_)
ReplaceQuote(s) ==
    IF s = <<>> THEN <<>>
    ELSE (IF Head(s) = "'" THEN <<"'", "\"", "'", "\"", "'">> ELSE <<Head(s)>>)
         \o ReplaceQuote(Tail(s))

ShlexQuoteNaive(s) ==
    IF s = <<>> THEN <<"'", "'">>
    ELSE IF \A i \in 1..Len(s) : s[i] \in SafeChars THEN s
    ELSE <<"'">> \o s \o <<"'">>

ShlexQuote(s) ==
    IF s = <<>> THEN <<"'", "'">>
    ELSE IF \A i \in 1..Len(s) : s[i] \in SafeChars THEN s
    ELSE <<"'">> \o ReplaceQuote(s) \o <<"'">>

\* ------------------------------------------------------ command rendering
\* Optional[str]: None, or a text.
NoStr == [isNone |-> TRUE, str |-> <<>>]
Str(s) == [isNone |-> FALSE, str |-> s]
Truthy(o) == ~o.isNone /\ o.str # <<>>

OptionalFlagsAlways(instructions, continue_conversation) ==
    (IF Truthy(instructions)
     THEN <<" ","-","-","a","p","p","e","n","d","-","s","y","s","t","e","m",
            "-","p","r","o","m","p","t"," ">> \o ShlexQuote(instructions.str)
     ELSE <<>>)
    \o <<" ","-","-","c","o","n","t","i","n","u","e">>

OptionalFlags(instructions, continue_conversation) ==
    (IF Truthy(instructions)
     THEN <<" ","-","-","a","p","p","e","n","d","-","s","y","s","t","e","m",
            "-","p","r","o","m","p","t"," ">> \o ShlexQuote(instructions.str)
     ELSE <<>>)
    \o (IF continue_conversation
        THEN <<" ","-","-","c","o","n","t","i","n","u","e">>
        ELSE <<>>)

RenderCommand(api_key, prompt, instructions, continue_conversation) ==
    <<"A","N","T","H","R","O","P","I","C","_","A","P","I","_","K","E","Y","=">>
    \o ShlexQuote(api_key) \o <<" ">>
    \o <<"c","l","a","u","d","e"," ","-","-","d","a","n","g","e","r","o","u",
         "s","l","y","-","s","k","i","p","-","p","e","r","m","i","s","s","i",
         "o","n","s"," ">>
    \o <<"-","p"," ">> \o ShlexQuote(prompt) \o <<" ">>
    \o <<"-","-","o","u","t","p","u","t","-","f","o","r","m","a","t"," ",
         "s","t","r","e","a","m","-","j","s","o","n"," ">>
    \o <<"-","-","i","n","c","l","u","d","e","-","p","a","r","t","i","a","l",
         "-","m","e","s","s","a","g","e","s">>
    \o OptionalFlags(instructions, continue_conversation)

ContinueSwitch == <<"-","-","c","o","n","t","i","n","u","e">>

\* ------------------------------------------------------------ _parse_lines
QueueLineNoExcept(queue, line) ==
    LET stripped == Strip(line) IN
    IF stripped # <<>> THEN Append(queue, JsonLoads(stripped).val) ELSE queue

\* The body of the while loop of _parse_lines for one line: a non-blank line
\* is decoded and queued, a JSONDecodeError is swallowed.
QueueLine(queue, line) ==
    LET stripped == Strip(line)
        decoded == JsonLoads(stripped)
    IN  IF stripped # <<>> /\ decoded.ok
        THEN Append(queue, decoded.val)
        ELSE queue

\* The while loop of _parse_lines: one line is split off combined per turn.
RECURSIVE SplitLines(_, _)
SplitLines(combined, queue) ==
    LET i == Find(combined, NL) IN
    IF i = 0 THEN [combined |-> combined, queue |-> queue]
    ELSE SplitLines(SubSeq(combined, i + 1, Len(combined)),
                    QueueLine(queue, SubSeq(combined, 1, i - 1)))

ParseLinesNoCarry(buffer, queue, text) ==
    [buffer |-> <<>>, queue |-> SplitLines(text, queue).queue]

ParseLinesLifo(buffer, queue, text) ==
    LET r == SplitLines(Join(Append(buffer, text)), <<>>)
    IN  [buffer |-> IF r.combined # <<>> THEN <<r.combined>> ELSE <<>>,
         queue |-> r.queue \o queue]

ParseLinesFlush(buffer, queue, text) ==
    LET r == SplitLines(Join(Append(buffer, text)), queue)
    IN  [buffer |-> <<>>, queue |-> QueueLine(r.queue, r.combined)]

\* buffer is the list of pending pieces, queue the asyncio.Queue's items.
ParseLines(buffer, queue, text) ==
    LET r == SplitLines(Join(Append(buffer, text)), queue)
    IN  [buffer |-> IF r.combined # <<>> THEN <<r.combined>> ELSE <<>>,
         queue |-> r.queue]

\* ---------------------------------------------------------------- StreamEvent
StreamEventTypeOnly(type, data) ==
    [type |-> type, data |-> JDict({<<"type", type>>})]

StreamEvent(type, data) == [type |-> type, data |-> data]

ContentTextFirst(e) ==
    LET get(d, key) == DictGet(d.val, key, None)
        isStr(v) == v.kind = "str"
        data == e.data
        msg == get(data, "message")
    IN  IF isStr(get(data, "text")) THEN get(data, "text").val
        ELSE IF isStr(get(data, "content")) THEN get(data, "content").val
        ELSE IF isStr(get(data, "result")) THEN get(data, "result").val
        ELSE IF msg.kind = "dict" /\ isStr(get(msg, "content"))
        THEN get(msg, "content").val
        ELSE IF msg.kind = "dict" /\ isStr(get(msg, "text"))
        THEN get(msg, "text").val
        ELSE ""

\* StreamEvent.content, for an event e whose data is a dict.
Content(e) ==
    LET get(d, key) == DictGet(d.val, key, None)
        isStr(v) == v.kind = "str"
        data == e.data
        msg == get(data, "message")
    IN  IF isStr(get(data, "content")) THEN get(data, "content").val
        ELSE IF isStr(get(data, "text")) THEN get(data, "text").val
        ELSE IF isStr(get(data, "result")) THEN get(data, "result").val
        ELSE IF msg.kind = "dict" /\ isStr(get(msg, "content"))
        THEN get(msg, "content").val
        ELSE IF msg.kind = "dict" /\ isStr(get(msg, "text"))
        THEN get(msg, "text").val
        ELSE ""

\* ------------------------------------------------------------------ inputs
Prompts == {<<"h","i">>, <<"i","t","'","s">>}
Instructions == {NoStr, Str(<<"b","e"," ","b","r","i","e","f">>)}
ApiKeys == {<<"s","k","-","k">>}

\* What the remote command may write to stdout: up to MaxLines lines, each
\* ended by a newline, then possibly text without a final newline.
Lines ==
    {<<"{","}">>, <<"{","T","}">>, <<" ","{","R","}">>,
     <<"{","T">>, <<>>, <<"0">>, <<"N">>}
Tails == {<<>>, <<"{","}">>}

RECURSIVE JoinLines(_)
JoinLines(ls) ==
    IF ls = <<>> THEN <<>> ELSE Head(ls) \o <<NL>> \o JoinLines(Tail(ls))

Texts ==
    {JoinLines(ls) \o t :
        ls \in UNION {[1..n -> Lines] : n \in 0..MaxLines}, t \in Tails}

\* A few of them, for the runs of several stream calls.
CallTexts ==
    {<<>>, <<"{","T",",","C","}",NL>>, <<"x",NL,"{","}",NL,"{","T">>}

\* Two more, for the runs of consecutive calls: the first can leave a record
\* in the queue and text in the buffer.
PairTexts ==
    {<<"{","}",NL,"{","R","}",NL,"{","T">>, <<"{","T",",","C","}",NL>>}

ErrTexts == {"", "Error: boom"}

\* -------------------------------------------------------------------- state
VARIABLES
    \* MaisonSandbox
    anthropic_api_key,  \* self._anthropic_api_key
    session_id,         \* self._session_id
    \* the remote environment
    claude_present,     \* the claude binary is resolvable in the sandbox
    uuid_draws,         \* how many times uuid.uuid4() was called
    created_sessions,   \* the create_session calls, in order
    live_sessions,      \* the sessions create_session completed for
    executed_commands,  \* the execute_session_command calls, in order
    out,                \* what the running command writes to stdout
    opos,               \* how much of out the log follower has delivered
    err,                \* what the running command writes to stderr
    edone,              \* err has been delivered to _on_stderr
    \* one stream call
    calls,              \* the arguments of the stream calls, in order
    pc,                 \* where the generator of the current call stands
    queue,              \* the asyncio.Queue
    buffer,             \* the list of pending pieces
    log_task,           \* the _follow_logs task
    events,             \* the events yielded by the current call
    outcome,            \* how the current call ended
    put,                \* everything _parse_lines queued in this call
    midcut,             \* a chunk has ended inside a line in this call
    \* Maison.create_sandbox_for_claude
    environ,            \* os.environ's ANTHROPIC_API_KEY
    boot_pc,            \* where create_sandbox_for_claude stands
    boot_args,          \* its arguments
    api_key,            \* its local api_key
    remote_log,         \* the provider calls it made, in order
    sandbox,            \* the provisioned environment
    exec_result,        \* what the install command returned
    boot_result,        \* what the caller got: an error or "returned"
    handle,             \* the MaisonSandbox it returned
    event,              \* a StreamEvent whose content property is read
    content,            \* what the property returned, None before the read
    render_args,        \* the texts a command is rendered from
    cmd                 \* the rendered command, None before the rendering

svars == <<anthropic_api_key, session_id, claude_present, uuid_draws,
           created_sessions, live_sessions, executed_commands, out, opos,
           err, edone, calls, pc, queue, buffer, log_task, events, outcome,
           put, midcut>>
bvars == <<environ, boot_pc, boot_args, api_key, remote_log, sandbox,
           exec_result, boot_result, handle>>
pvars == <<event, content, render_args, cmd>>
vars == <<svars, bvars, pvars>>

NoId == [isNone |-> TRUE, n |-> 0]
Id(n) == [isNone |-> FALSE, n |-> n]

\* What a call gave its caller: "returned", or the error and its message.
Result(kind, detail) == [kind |-> kind, detail |-> detail]

NoHandle == [isNone |-> TRUE, anthropic_api_key |-> <<>>, session_id |-> NoId]

\* ------------------------------------------------------------- construction
InitHandle ==
    /\ anthropic_api_key \in ApiKeys
    /\ session_id = NoId
    /\ claude_present \in BOOLEAN
    /\ uuid_draws = 0
    /\ created_sessions = <<>>
    /\ live_sessions = {}
    /\ executed_commands = <<>>
    /\ out = <<>>
    /\ opos = 0
    /\ err = ""
    /\ edone = FALSE
    /\ calls = <<>>
    /\ pc = "idle"
    /\ queue = <<>>
    /\ buffer = <<>>
    /\ log_task = "none"
    /\ events = <<>>
    /\ outcome = "none"
    /\ put = <<>>
    /\ midcut = FALSE

\* os.environ: ANTHROPIC_API_KEY unset, empty, or set.
EnvKeys == {NoStr, Str(<<>>), Str(<<"s","k","-","e">>)}

InitBoot ==
    /\ environ \in EnvKeys
    /\ boot_pc = "idle"
    /\ boot_args = [anthropic_api_key |-> NoStr, snapshot |-> "", name |-> NoStr]
    /\ api_key = <<>>
    /\ remote_log = <<>>
    /\ sandbox = "none"
    /\ exec_result = [exit_code |-> 0, result |-> ""]
    /\ boot_result = Result("none", "")
    /\ handle = NoHandle

\* No event is read and no command is rendered apart from a stream call.
InitPure ==
    /\ event = StreamEvent("unknown", JDict({}))
    /\ content = NoStr
    /\ render_args = [api_key |-> <<>>, prompt |-> <<>>,
                      instructions |-> NoStr, continue_conversation |-> FALSE]
    /\ cmd = NoStr

\* ----------------------------------------------------------- _ensure_session
\* The new handle state and whether create_session is awaited.
EnsureSessionFresh(sid, draws) ==
    [session_id |-> Id(draws + 1), uuid_draws |-> draws + 1, create |-> TRUE]

EnsureSession(sid, draws) ==
    IF sid.isNone
    THEN [session_id |-> Id(draws + 1), uuid_draws |-> draws + 1,
          create |-> TRUE]
    ELSE [session_id |-> sid, uuid_draws |-> draws, create |-> FALSE]

\* ------------------------------------------------------------------- stream
StreamSharedAssembly(prompt, instructions, continue_conversation) ==
    /\ pc = "idle"
    /\ calls' = Append(calls, [prompt |-> prompt,
                               instructions |-> instructions,
                               continue_conversation |-> continue_conversation,
                               left |-> [text |-> buffer # <<>>,
                                         record |-> \E i \in 1..Len(queue) :
                                                     queue[i].kind = "dict"]])
    /\ LET e == EnsureSession(session_id, uuid_draws) IN
        /\ session_id' = e.session_id
        /\ uuid_draws' = e.uuid_draws
        /\ created_sessions' = IF e.create
                               THEN Append(created_sessions, e.session_id)
                               ELSE created_sessions
        /\ pc' = IF e.create THEN "create_session" ELSE "execute"
    /\ queue' = queue
    /\ buffer' = buffer
    /\ log_task' = "none"
    /\ events' = <<>>
    /\ outcome' = "running"
    /\ put' = <<>>
    /\ midcut' = FALSE
    /\ out' = <<>>
    /\ opos' = 0
    /\ err' = ""
    /\ edone' = FALSE
    /\ UNCHANGED <<anthropic_api_key, claude_present, live_sessions,
                   executed_commands, bvars, pvars>>

\* The consumer calls stream and asks for the first event: the generator
\* runs up to its first await.  queue and buffer are new objects of the call;
\* left records, for the claims, whether the call before left text in its
\* buffer and a record in its queue.
Stream(prompt, instructions, continue_conversation) ==
    /\ pc = "idle"
    /\ calls' = Append(calls, [prompt |-> prompt,
                               instructions |-> instructions,
                               continue_conversation |-> continue_conversation,
                               left |-> [text |-> buffer # <<>>,
                                         record |-> \E i \in 1..Len(queue) :
                                                     queue[i].kind = "dict"]])
    /\ LET e == EnsureSession(session_id, uuid_draws) IN
        /\ session_id' = e.session_id
        /\ uuid_draws' = e.uuid_draws
        /\ created_sessions' = IF e.create
                               THEN Append(created_sessions, e.session_id)
                               ELSE created_sessions
        /\ pc' = IF e.create THEN "create_session" ELSE "execute"
    /\ queue' = <<>>
    /\ buffer' = <<>>
    /\ log_task' = "none"
    /\ events' = <<>>
    /\ outcome' = "running"
    /\ put' = <<>>
    /\ midcut' = FALSE
    /\ out' = <<>>
    /\ opos' = 0
    /\ err' = ""
    /\ edone' = FALSE
    /\ UNCHANGED <<anthropic_api_key, claude_present, live_sessions,
                   executed_commands, bvars, pvars>>

\* await create_session(...) returns.
CreateSessionReturns ==
    /\ pc = "create_session"
    /\ live_sessions' = live_sessions \cup {session_id}
    /\ pc' = "execute"
    /\ UNCHANGED <<anthropic_api_key, session_id, claude_present, uuid_draws,
                   created_sessions, executed_commands, out, opos, err, edone,
                   calls, queue, buffer, log_task, events, outcome, put,
                   midcut, bvars, pvars>>

\* await create_session(...) raises: the error leaves stream.
CreateSessionFails ==
    /\ pc = "create_session"
    /\ pc' = "idle"
    /\ outcome' = "create_session error"
    /\ UNCHANGED <<anthropic_api_key, session_id, claude_present, uuid_draws,
                   created_sessions, live_sessions, executed_commands, out,
                   opos, err, edone, calls, queue, buffer, log_task, events,
                   put, midcut, bvars, pvars>>

CurrentCommand ==
    LET a == calls[Len(calls)] IN
    RenderCommand(anthropic_api_key, a.prompt, a.instructions,
                  a.continue_conversation)

\* execute_session_command(session_id, SessionExecuteRequest(cmd, run_async))
\* returns a command id; the command starts and will write o and e.  The log
\* task is created and the generator waits on the queue.
ExecuteReturns(o, e) ==
    /\ pc = "execute"
    /\ session_id \in live_sessions
    /\ ~claude_present => o = <<>> /\ e # ""
    /\ executed_commands' =
         Append(executed_commands,
                [session_id |-> session_id, command |-> CurrentCommand,
                 run_async |-> TRUE, call |-> Len(calls)])
    /\ out' = o
    /\ err' = e
    /\ log_task' = "running"
    /\ pc' = "waiting"
    /\ UNCHANGED <<anthropic_api_key, session_id, claude_present, uuid_draws,
                   created_sessions, live_sessions, opos, edone, calls, queue,
                   buffer, events, outcome, put, midcut, bvars, pvars>>

\* execute_session_command raises (always so for a session that does not
\* exist): the error leaves stream.
ExecuteFails ==
    /\ pc = "execute"
    /\ executed_commands' =
         Append(executed_commands,
                [session_id |-> session_id, command |-> CurrentCommand,
                 run_async |-> TRUE, call |-> Len(calls)])
    /\ pc' = "idle"
    /\ outcome' = "execute error"
    /\ UNCHANGED <<anthropic_api_key, session_id, claude_present, uuid_draws,
                   created_sessions, live_sessions, out, opos, err, edone,
                   calls, queue, buffer, log_task, events, put, midcut, bvars, pvars>>

\* get_session_command_logs_async hands the next k characters of stdout to
\* _on_stdout, which is _parse_lines.
OnStdout(k) ==
    /\ log_task = "running"
    /\ opos + k <= Len(out)
    /\ LET r == ParseLines(buffer, queue, SubSeq(out, opos + 1, opos + k)) IN
        /\ buffer' = r.buffer
        /\ queue' = r.queue
        /\ put' = put \o SubSeq(r.queue, Len(queue) + 1, Len(r.queue))
        /\ midcut' = (midcut \/ (r.buffer # <<>> /\ opos + k < Len(out)))
    /\ opos' = opos + k
    /\ UNCHANGED <<anthropic_api_key, session_id, claude_present, uuid_draws,
                   created_sessions, live_sessions, executed_commands, out,
                   err, edone, calls, pc, log_task, events, outcome, bvars, pvars>>

\* get_session_command_logs_async hands stderr to _on_stderr, which ignores it.
OnStderr ==
    /\ log_task = "running"
    /\ err # ""
    /\ ~edone
    /\ edone' = TRUE
    /\ UNCHANGED <<anthropic_api_key, session_id, claude_present, uuid_draws,
                   created_sessions, live_sessions, executed_commands, out,
                   opos, err, calls, pc, queue, buffer, log_task, events,
                   outcome, put, midcut, bvars, pvars>>

LogsReturnNoSentinel ==
    /\ log_task = "running"
    /\ opos = Len(out)
    /\ err # "" => edone
    /\ log_task' = "done"
    /\ UNCHANGED <<anthropic_api_key, session_id, claude_present, uuid_draws,
                   created_sessions, live_sessions, executed_commands, out,
                   opos, err, edone, calls, pc, queue, buffer, events,
                   outcome, put, midcut, bvars, pvars>>

\* The command has completed and all its output was handed over:
\* get_session_command_logs_async returns, the finally clause queues None.
LogsReturn ==
    /\ log_task = "running"
    /\ opos = Len(out)
    /\ err # "" => edone
    /\ queue' = Append(queue, None)
    /\ log_task' = "done"
    /\ UNCHANGED <<anthropic_api_key, session_id, claude_present, uuid_draws,
                   created_sessions, live_sessions, executed_commands, out,
                   opos, err, edone, calls, pc, buffer, events, outcome, put,
                   midcut, bvars, pvars>>

\* get_session_command_logs_async raises: the finally clause queues None and
\* the task ends with the error.
LogsFail ==
    /\ log_task = "running"
    /\ queue' = Append(queue, None)
    /\ log_task' = "failed"
    /\ UNCHANGED <<anthropic_api_key, session_id, claude_present, uuid_draws,
                   created_sessions, live_sessions, executed_commands, out,
                   opos, err, edone, calls, pc, buffer, events, outcome, put,
                   midcut, bvars, pvars>>

FinallyNoCancel(task) == task

\* The finally clause of stream.
Finally(task) == IF task \notin {"done", "failed"} THEN "cancelled" ELSE task

\* raw = await queue.get() with an item in the queue, up to the next yield
\* or the end of the generator.
QueueGet ==
    /\ pc \in {"waiting", "yielded"}
    /\ queue # <<>>
    /\ queue' = Tail(queue)
    /\ LET raw == Head(queue) IN
        IF raw = None
        THEN /\ pc' = "idle"
             /\ outcome' = "ended"
             /\ log_task' = Finally(log_task)
             /\ events' = events
        ELSE IF raw.kind # "dict"
        THEN /\ pc' = "idle"
             /\ outcome' = "AttributeError"
             /\ log_task' = Finally(log_task)
             /\ events' = events
        ELSE /\ pc' = "yielded"
             /\ outcome' = outcome
             /\ log_task' = log_task
             /\ events' = Append(events,
                    StreamEvent(DictGet(raw.val, "type", JStr("unknown")), raw))
    /\ UNCHANGED <<anthropic_api_key, session_id, claude_present, uuid_draws,
                   created_sessions, live_sessions, executed_commands, out,
                   opos, err, edone, calls, buffer, put, midcut, bvars, pvars>>

\* The consumer asks for the next event while the queue is empty.
QueueWait ==
    /\ pc = "yielded"
    /\ queue = <<>>
    /\ pc' = "waiting"
    /\ UNCHANGED <<anthropic_api_key, session_id, claude_present, uuid_draws,
                   created_sessions, live_sessions, executed_commands, out,
                   opos, err, edone, calls, queue, buffer, log_task, events,
                   outcome, put, midcut, bvars, pvars>>

\* The consumer closes the generator at a yield.
Close ==
    /\ pc = "yielded"
    /\ pc' = "idle"
    /\ outcome' = "closed"
    /\ log_task' = Finally(log_task)
    /\ UNCHANGED <<anthropic_api_key, session_id, claude_present, uuid_draws,
                   created_sessions, live_sessions, executed_commands, out,
                   opos, err, edone, calls, queue, buffer, events, put,
                   midcut, bvars, pvars>>

\* ------------------------------------------ Maison.create_sandbox_for_claude
ArgKeys == {NoStr, Str(<<>>), Str(<<"s","k","-","k">>)}
Names == {NoStr, Str(<<>>), Str(<<"d","e","v">>)}
ExecResults ==
    {[exit_code |-> 0, result |-> "added 1 package"],
     [exit_code |-> 1, result |-> "npm ERR!"],
     [exit_code |-> 127, result |-> "npm: not found"]}

ResolveKeyDefault(arg, env) ==
    IF Truthy(arg) THEN arg.str ELSE IF env.isNone THEN <<"x">> ELSE env.str

\* anthropic_api_key or os.environ.get("ANTHROPIC_API_KEY", "")
ResolveKey(arg, env) ==
    IF Truthy(arg) THEN arg.str ELSE IF env.isNone THEN <<>> ELSE env.str

\* The keyword arguments of CreateSandboxFromSnapshotParams.
ParamsKwargs(snapshot, name) ==
    IF Truthy(name)
    THEN [snapshot |-> snapshot, name |-> name]
    ELSE [snapshot |-> snapshot, name |-> NoStr]

\* The call, up to the ValueError or to the await of daytona.create.
CreateSandboxForClaude(key, name) ==
    /\ boot_pc = "idle"
    /\ boot_args' = [anthropic_api_key |-> key, snapshot |-> "daytona-small",
                     name |-> name]
    /\ api_key' = ResolveKey(key, environ)
    /\ IF ResolveKey(key, environ) = <<>>
       THEN /\ boot_pc' = "done"
            /\ boot_result' = Result("ValueError", "")
            /\ remote_log' = remote_log
       ELSE /\ boot_pc' = "create"
            /\ boot_result' = boot_result
            /\ remote_log' = remote_log \o
                 <<[op |-> "AsyncDaytona", arg |-> NoStr],
                   [op |-> "create",
                    arg |-> ParamsKwargs("daytona-small", name).name]>>
    /\ UNCHANGED <<environ, sandbox, exec_result, handle, svars, pvars>>

\* daytona.create returns the environment; the install command is sent.
CreateReturns ==
    /\ boot_pc = "create"
    /\ sandbox' = "live"
    /\ remote_log' = Append(remote_log, [op |-> "exec", arg |-> NoStr])
    /\ boot_pc' = "exec"
    /\ UNCHANGED <<environ, boot_args, api_key, exec_result, boot_result,
                   handle, svars, pvars>>

\* daytona.create raises.
CreateFails ==
    /\ boot_pc = "create"
    /\ boot_pc' = "done"
    /\ boot_result' = Result("create error", "")
    /\ UNCHANGED <<environ, boot_args, api_key, remote_log, sandbox,
                   exec_result, handle, svars, pvars>>

ExecReturnsNoDelete(r) ==
    /\ boot_pc = "exec"
    /\ exec_result' = r
    /\ boot_pc' = "done"
    /\ IF r.exit_code # 0
       THEN /\ boot_result' = Result("RuntimeError", r.result)
            /\ handle' = handle
       ELSE /\ boot_result' = Result("returned", "")
            /\ handle' = [isNone |-> FALSE, anthropic_api_key |-> api_key,
                          session_id |-> NoId]
    /\ UNCHANGED <<environ, boot_args, api_key, remote_log, sandbox, svars, pvars>>

\* sandbox.process.exec returns r: a MaisonSandbox is returned, or the
\* environment is handed to daytona.delete.
ExecReturns(r) ==
    /\ boot_pc = "exec"
    /\ exec_result' = r
    /\ IF r.exit_code # 0
       THEN /\ remote_log' = Append(remote_log, [op |-> "delete", arg |-> NoStr])
            /\ boot_pc' = "delete"
            /\ boot_result' = boot_result
            /\ handle' = handle
       ELSE /\ remote_log' = remote_log
            /\ boot_pc' = "done"
            /\ boot_result' = Result("returned", "")
            /\ handle' = [isNone |-> FALSE, anthropic_api_key |-> api_key,
                          session_id |-> NoId]
    /\ UNCHANGED <<environ, boot_args, api_key, sandbox, svars, pvars>>

\* sandbox.process.exec raises.
ExecFails ==
    /\ boot_pc = "exec"
    /\ boot_pc' = "done"
    /\ boot_result' = Result("exec error", "")
    /\ UNCHANGED <<environ, boot_args, api_key, remote_log, sandbox,
                   exec_result, handle, svars, pvars>>

\* daytona.delete returns: the RuntimeError is raised.
DeleteReturns ==
    /\ boot_pc = "delete"
    /\ sandbox' = "deleted"
    /\ boot_pc' = "done"
    /\ boot_result' = Result("RuntimeError", exec_result.result)
    /\ UNCHANGED <<environ, boot_args, api_key, remote_log, exec_result,
                   handle, svars, pvars>>

\* daytona.delete raises.
DeleteFails ==
    /\ boot_pc = "delete"
    /\ boot_pc' = "done"
    /\ boot_result' = Result("delete error", "")
    /\ UNCHANGED <<environ, boot_args, api_key, remote_log, sandbox,
                   exec_result, handle, svars, pvars>>

\* ----------------------------------------------------------- specifications
\* Several stream calls on one handle.
Init == InitHandle /\ InitBoot /\ InitPure /\ environ = NoStr

Next ==
    \/ /\ Len(calls) < MaxCalls
       /\ \E p \in Prompts, i \in Instructions, c \in BOOLEAN : Stream(p, i, c)
    \/ CreateSessionReturns
    \/ CreateSessionFails
    \/ \E o \in CallTexts, e \in ErrTexts : ExecuteReturns(o, e)
    \/ ExecuteFails
    \/ \E k \in 1..(Len(out) - opos) : OnStdout(k)
    \/ OnStderr
    \/ LogsReturn
    \/ LogsFail
    \/ QueueGet
    \/ QueueWait
    \/ Close

Spec == Init /\ [][Next]_vars

\* One stream call, over every stdout text of up to MaxLines lines.
NextAsm ==
    \/ /\ calls = <<>>
       /\ Stream(<<"h","i">>, NoStr, FALSE)
    \/ CreateSessionReturns
    \/ CreateSessionFails
    \/ \E o \in Texts, e \in ErrTexts : ExecuteReturns(o, e)
    \/ ExecuteFails
    \/ \E k \in 1..(Len(out) - opos) : OnStdout(k)
    \/ OnStderr
    \/ LogsReturn
    \/ LogsFail
    \/ QueueGet
    \/ QueueWait
    \/ Close

SpecAsm == Init /\ [][NextAsm]_vars

\* One stream call whose consumer keeps asking for the next event: the
\* async for loop of the caller resumes the generator whenever queue.get() can
\* return, and the event loop runs every ready coroutine.
SpecAsmFair == SpecAsm /\ WF_vars(QueueGet)

\* Consecutive stream calls with the same arguments, each consumed or closed
\* before the next.
NextPair ==
    \/ /\ Len(calls) < MaxCalls
       /\ Stream(<<"h","i">>, NoStr, FALSE)
    \/ CreateSessionReturns
    \/ CreateSessionFails
    \/ \E o \in PairTexts, e \in ErrTexts : ExecuteReturns(o, e)
    \/ ExecuteFails
    \/ \E k \in 1..(Len(out) - opos) : OnStdout(k)
    \/ OnStderr
    \/ LogsReturn
    \/ LogsFail
    \/ QueueGet
    \/ QueueWait
    \/ Close

SpecPair == Init /\ [][NextPair]_vars

\* One call of create_sandbox_for_claude.
InitB == InitHandle /\ InitBoot /\ InitPure /\ claude_present

NextBoot ==
    \/ \E k \in ArgKeys, n \in Names : CreateSandboxForClaude(k, n)
    \/ CreateReturns
    \/ CreateFails
    \/ \E r \in ExecResults : ExecReturns(r)
    \/ ExecFails
    \/ DeleteReturns
    \/ DeleteFails

SpecBoot == InitB /\ [][NextBoot]_vars

\* --------------------------------------------------- StreamEvent.content
\* The payloads of the events read: each of content, text and result is
\* absent, a string, a number or null; message is absent, a string, null, or
\* an object whose content and text are absent, a string or a number.
ValuesAt(key, values) == {{}} \cup {{<<key, v>>} : v \in values}

TopLevelMembers ==
    {c \cup t \cup r :
        c \in ValuesAt("content", {JStr("c"), JInt(1), None}),
        t \in ValuesAt("text", {JStr("t"), JInt(2), None}),
        r \in ValuesAt("result", {JStr("r"), JInt(3), None})}

Messages ==
    {JStr("m"), None} \cup
    {JDict(c \cup t) :
        c \in ValuesAt("content", {JStr("mc"), JInt(4)}),
        t \in ValuesAt("text", {JStr("mt"), JInt(5)})}

Payloads ==
    {JDict(top \cup m) : top \in TopLevelMembers,
                         m \in ValuesAt("message", Messages)}

\* event.content is read.
ReadContent ==
    /\ content.isNone
    /\ content' = Str(Content(event))
    /\ UNCHANGED <<event, render_args, cmd, svars, bvars>>

InitContent ==
    /\ InitHandle /\ claude_present
    /\ InitBoot /\ environ = NoStr
    /\ event \in {StreamEvent("assistant", d) : d \in Payloads}
    /\ content = NoStr
    /\ render_args = [api_key |-> <<>>, prompt |-> <<>>,
                      instructions |-> NoStr, continue_conversation |-> FALSE]
    /\ cmd = NoStr

NextContent == ReadContent

SpecContent == InitContent /\ [][NextContent]_vars

\* ------------------------------------------------------ the rendered command
\* The texts a command is rendered from: harmless ones and ones holding
\* quotes, blanks, ';', '$', backticks, newlines, backslashes, operators and
\* patterns of the shell, and the empty text.
MetaTexts ==
    {<<"h", "i">>,
     <<"i", "t", "'", "s">>,
     <<"a", " ", "b">>,
     <<";", "r", "m">>,
     <<"$", "x">>,
     <<Backtick, "x", Backtick>>,
     <<"a", "\n", "b">>,
     <<"a", "\"", "b">>,
     <<"a", "\\", "b">>,
     <<"'", ";", "x", "'">>,
     <<"a", "|", "b", "&", "c", ">", "d">>,
     <<"*">>,
     <<"#", "~">>,
     <<>>}

RenderArgs ==
    [api_key : MetaTexts, prompt : MetaTexts,
     instructions : {NoStr} \cup {Str(t) : t \in MetaTexts},
     continue_conversation : BOOLEAN]

\* cmd = f"ANTHROPIC_API_KEY=... claude ... -p ... {optional_flags}"
Render ==
    /\ cmd.isNone
    /\ cmd' = Str(RenderCommand(render_args.api_key, render_args.prompt,
                                render_args.instructions,
                                render_args.continue_conversation))
    /\ UNCHANGED <<event, content, render_args, svars, bvars>>

InitRender ==
    /\ InitHandle /\ claude_present
    /\ InitBoot /\ environ = NoStr
    /\ event = StreamEvent("unknown", JDict({}))
    /\ content = NoStr
    /\ render_args \in RenderArgs
    /\ cmd = NoStr

NextRender == Render

SpecRender == InitRender /\ [][NextRender]_vars

\* ------------------------------------------------------------- the claims
\* The complete lines of a text: what precedes each newline.
RECURSIVE CompleteLines(_)
CompleteLines(text) ==
    IF \A i \in 1..Len(text) : text[i] # NL THEN <<>>
    ELSE LET end == CHOOSE i \in 1..Len(text) :
                        text[i] = NL /\ \A j \in 1..(i - 1) : text[j] # NL
         IN  <<SubSeq(text, 1, end - 1)>>
             \o CompleteLines(SubSeq(text, end + 1, Len(text)))

IsRecordLine(line) == JsonLoads(line).ok /\ JsonLoads(line).val.kind = "dict"
IsJsonLine(line) == JsonLoads(line).ok
IsMalformedLine(line) == Strip(line) # <<>> /\ ~JsonLoads(line).ok

RECURSIVE ValuesOf(_)
ValuesOf(lines) ==
    IF lines = <<>> THEN <<>>
    ELSE <<JsonLoads(Head(lines)).val>> \o ValuesOf(Tail(lines))

\* The records of the valid record lines of a text, in the order of the lines.
RecordsOf(text) == ValuesOf(SelectSeq(CompleteLines(text), IsRecordLine))
\* The values of the lines of a text that are JSON, in the order of the lines.
DecodedOf(text) == ValuesOf(SelectSeq(CompleteLines(text), IsJsonLine))

IsPrefix(s, t) == Len(s) <= Len(t) /\ s = SubSeq(t, 1, Len(s))

DataOf(evs) == [i \in 1..Len(evs) |-> evs[i].data]
StderrEvents == {i \in 1..Len(events) : events[i].type = JStr("stderr")}
Delivered == SubSeq(out, 1, opos)

\* C1: the session is created lazily by the first stream call, create_session
\* is called exactly once in all, and the session identifier, once set, is the
\* one of every later call: never changed, never reset.
C1_SessionCreatedOnce ==
    /\ calls = <<>> => session_id.isNone /\ created_sessions = <<>>
    /\ calls # <<>> =>
         /\ Len(created_sessions) = 1
         /\ session_id = created_sessions[1]
         /\ ~session_id.isNone
    /\ \A i \in 1..Len(executed_commands) :
         executed_commands[i].session_id = created_sessions[1]

C1_Witness ==
    /\ Len(calls) = 2
    /\ Len(executed_commands) = 2
    /\ pc = "yielded"

\* C2: whatever the cuts between the chunks, the records _parse_lines has
\* produced over the chunks are the records it produces from the same text
\* delivered as one chunk.
C2_ChunkingInvariance ==
    put = ParseLines(<<>>, <<>>, Delivered).queue

C2_Witness ==
    /\ midcut
    /\ opos = Len(out)
    /\ LET ls == CompleteLines(out) IN \A n \in 1..Len(ls) : IsRecordLine(ls[n])
    /\ Len(put) = 2
    /\ put[1] # put[2]

\* C3: when every line of stdout is a valid record or is not JSON, a call
\* yields one event per valid line, in the order of the lines, and none for
\* the other lines; no line raises to the caller or ends the stream.
C3_Scope ==
    LET ls == CompleteLines(out) IN
    \A n \in 1..Len(ls) : IsRecordLine(ls[n]) \/ ~IsJsonLine(ls[n])

C3_MalformedLinesSkipped ==
    C3_Scope =>
        /\ put = RecordsOf(Delivered)
        /\ IsPrefix(DataOf(events), RecordsOf(out))
        /\ outcome \in {"none", "running", "ended", "closed",
                        "create_session error", "execute error"}
        /\ outcome = "ended" => log_task \in {"done", "failed"}
        /\ outcome = "ended" /\ log_task = "done" =>
              DataOf(events) = RecordsOf(out)

C3_Witness ==
    /\ C3_Scope
    /\ outcome = "ended"
    /\ log_task = "done"
    /\ LET ls == CompleteLines(out) IN
         Len(ls) = 2 /\ IsMalformedLine(ls[1]) /\ IsRecordLine(ls[2])
    /\ Len(events) = 1

C5_StderrEvent ==
    outcome = "ended" /\ log_task = "done" /\ err # "" =>
        /\ Cardinality(StderrEvents) = 1
        /\ \A i \in StderrEvents : Content(events[i]) = err

\* C6: when the claude binary is not in the sandbox, stream raises the
\* RuntimeError before the claude command is sent to the session, and yields
\* no event.
C6_Preflight ==
    ~claude_present =>
        /\ \A i \in 1..Len(executed_commands) :
              ~Contains(executed_commands[i].command, <<" ","-","p"," ">>)
        /\ events = <<>>
        /\ outcome \in {"none", "running", "create_session error",
                        "RuntimeError"}

\* C10: the command of a call holds --continue exactly when that call was
\* given continue_conversation = True, whatever the calls before it were given.
C10_ContinuePerCall ==
    \A i \in 1..Len(executed_commands) :
        Contains(executed_commands[i].command, ContinueSwitch)
            <=> calls[executed_commands[i].call].continue_conversation

C10_Witness ==
    /\ Len(executed_commands) = 2
    /\ calls[1].continue_conversation
    /\ ~calls[2].continue_conversation
    /\ executed_commands[2].call = 2

DeleteCalls == Cardinality({i \in 1..Len(remote_log) : remote_log[i].op = "delete"})
Before(a, b) ==
    \E i, j \in 1..Len(remote_log) :
        i < j /\ remote_log[i].op = a /\ remote_log[j].op = b

\* C7: when the install command returns a non-zero exit status, delete is
\* called once on the environment, before the RuntimeError with the captured
\* output is raised, and no MaisonSandbox is returned.
C7_DeleteOnFailedInstall ==
    /\ DeleteCalls <= 1
    /\ boot_pc \in {"delete", "done"} /\ exec_result.exit_code # 0 =>
         /\ DeleteCalls = 1
         /\ Before("exec", "delete")
         /\ handle.isNone
         /\ boot_result.kind \in {"none", "RuntimeError", "delete error"}
         /\ boot_result.kind = "none" <=> boot_pc = "delete"
    /\ boot_result.kind = "RuntimeError" =>
         /\ exec_result.exit_code # 0
         /\ boot_result.detail = exec_result.result
         /\ sandbox = "deleted"

C7_Witness ==
    /\ boot_result.kind = "RuntimeError"
    /\ exec_result.exit_code = 127

\* C8: a call that ends in an error after the environment was created (the
\* install command returned non-zero, or the install call failed) has deleted
\* the environment.
C8_NoLeak ==
    boot_result.kind \in {"RuntimeError", "exec error"} => sandbox = "deleted"

\* C9: without a credential (no argument and no environment variable, or
\* empty ones) the call fails with the ValueError before anything remote: no
\* client, no environment, no install command, no delete.
NoCredential == ~Truthy(boot_args.anthropic_api_key) /\ ~Truthy(environ)

C9_NoCredential ==
    boot_pc # "idle" /\ NoCredential =>
        /\ boot_pc = "done"
        /\ boot_result.kind = "ValueError"
        /\ remote_log = <<>>
        /\ sandbox = "none"
        /\ handle.isNone

C9_Witness ==
    /\ boot_result.kind = "ValueError"
    /\ boot_args.anthropic_api_key = Str(<<>>)
    /\ environ = Str(<<>>)

\* C11: when create_session fails, the error reaches the caller of stream
\* and the handle's session identifier stays None, so that a later call
\* creates the session again.
C11_SessionUnsetAfterFailure ==
    outcome = "create_session error" => session_id.isNone

\* C12: once the log task has seen the command complete, a consumer that keeps
\* asking for events reaches the end of the stream call, whatever the output.
C12_StreamTerminates ==
    (log_task = "done" /\ pc \in {"waiting", "yielded"}) ~> (pc = "idle")

\* A command without any output has completed and the sequence has ended
\* without an event.
C12_Witness ==
    /\ out = <<>>
    /\ log_task = "done"
    /\ outcome = "ended"
    /\ events = <<>>
    /\ pc = "idle"

\* C13: when the consumer closes the sequence before the command has
\* completed, the log task is cancelled, not awaited, no error is raised, and
\* no log task of the call is left running once the call is over.
C13_CancelOnClose ==
    /\ pc = "idle" => log_task # "running"
    /\ outcome = "closed" =>
         /\ log_task \in {"cancelled", "done", "failed"}
         /\ opos < Len(out) => log_task \in {"cancelled", "failed"}

C13_Witness ==
    /\ outcome = "closed"
    /\ log_task = "cancelled"
    /\ opos < Len(out)
    /\ pc = "idle"

CaptureOut == <<">"," ","/","t","m","p","/","m","a","i","s","o","n","-">>
CaptureErr == <<"2",">"," ","/","t","m","p","/","m","a","i","s","o","n","-">>
CaptureDone ==
    <<"e","c","h","o"," ","$","?"," ",">"," ","/","t","m","p","/","m","a","i",
      "s","o","n","-">>

\* C14: every command stream renders sends stdout, stderr and the exit status
\* to capture targets under /tmp/maison-.
C14_CaptureTargets ==
    \A i \in 1..Len(executed_commands) :
        /\ Contains(executed_commands[i].command, CaptureOut)
        /\ Contains(executed_commands[i].command, CaptureErr)
        /\ Contains(executed_commands[i].command, CaptureDone)

\* The candidates of a payload in the order of precedence, None standing for
\* a key that is absent or a message that is not a mapping.
Candidates(data) ==
    LET msg == DictGet(data.val, "message", None)
        inner == IF msg.kind = "dict" THEN msg.val ELSE {}
    IN  <<DictGet(data.val, "content", None),
          DictGet(data.val, "text", None),
          DictGet(data.val, "result", None),
          DictGet(inner, "content", None),
          DictGet(inner, "text", None)>>

FirstString(cands) ==
    LET strs == {i \in 1..Len(cands) : cands[i].kind = "str"}
    IN  IF strs = {} THEN ""
        ELSE cands[CHOOSE i \in strs : \A j \in strs : i <= j].val

\* C15: content returns the first string among top-level content, text,
\* result, message.content, message.text, and the empty string when none of
\* them is a string.
C15_ContentPrecedence ==
    ~content.isNone => content.str = FirstString(Candidates(event.data))

\* A number at content was passed over for the string at text, although the
\* message holds a string too.
C15_Witness ==
    /\ ~content.isNone
    /\ DictGet(event.data.val, "content", None) = JInt(1)
    /\ DictGet(event.data.val, "text", None) = JStr("t")
    /\ DictGet(event.data.val, "message", None).kind = "dict"
    /\ content.str = "t"

\* How a POSIX shell splits a command line into words. Unquoted, a blank ends
\* a word, a backslash makes the next character literal, and an operator
\* (; & | < > ( ) newline), an expansion ($, backtick) or a pattern, tilde, comment
\* or brace character makes the line unclean; between single quotes every
\* character is literal; between double quotes $ and the backtick still expand. clean
\* tells that no such character was met and every quote was closed; words
\* are the words after quote removal.
ShellSpecial ==
    {";", "&", "|", "<", ">", "(", ")", NL, "$", Backtick, "*", "?", "[", "~",
     "#", "{", "}", "!"}

\* One character c read in the lexer state st: the mode (plain, single,
\* double, or after a backslash in plain or double), the word being read,
\* the words read, and whether the line is clean so far.
LexStep(st, c) ==
    LET ended == IF st.inword THEN Append(st.words, st.word) ELSE st.words
    IN
    CASE st.mode = "single" ->
           IF c = "'"
           THEN [st EXCEPT !.mode = "plain"]
           ELSE [st EXCEPT !.word = Append(@, c)]
      [] st.mode = "double" ->
           IF c = "\""
           THEN [st EXCEPT !.mode = "plain"]
           ELSE IF c = "\\"
           THEN [st EXCEPT !.mode = "double escape"]
           ELSE [st EXCEPT !.word = Append(@, c),
                           !.clean = @ /\ c \notin {"$", Backtick}]
      [] st.mode = "double escape" ->
           IF c \in {"$", Backtick, "\"", "\\"}
           THEN [st EXCEPT !.mode = "double", !.word = Append(@, c)]
           ELSE [st EXCEPT !.mode = "double",
                           !.word = Append(Append(@, "\\"), c)]
      [] st.mode = "escape" ->
           [st EXCEPT !.mode = "plain", !.word = Append(@, c),
                      !.inword = TRUE]
      [] OTHER ->
           IF c = " "
           THEN [st EXCEPT !.word = <<>>, !.inword = FALSE, !.words = ended]
           ELSE IF c = "'"
           THEN [st EXCEPT !.mode = "single", !.inword = TRUE]
           ELSE IF c = "\""
           THEN [st EXCEPT !.mode = "double", !.inword = TRUE]
           ELSE IF c = "\\"
           THEN [st EXCEPT !.mode = "escape"]
           ELSE IF c \in ShellSpecial
           THEN [st EXCEPT !.word = <<>>, !.inword = FALSE, !.words = ended,
                           !.clean = FALSE]
           ELSE [st EXCEPT !.word = Append(@, c), !.inword = TRUE]

\* The state after the characters lo..hi of s, read from the state st; the
\* reading stops where the line is found unclean.
RECURSIVE LexFrom(_, _, _, _)
LexFrom(s, lo, hi, st) ==
    IF lo > hi THEN st
    ELSE IF lo = hi THEN LexStep(st, s[lo])
    ELSE LET mid == (lo + hi) \div 2
             left == LexFrom(s, lo, mid, st)
         IN  IF left.clean THEN LexFrom(s, mid + 1, hi, left) ELSE left

ShellLex(s) ==
    LET st == LexFrom(s, 1, Len(s),
                      [mode |-> "plain", word |-> <<>>, inword |-> FALSE,
                       words |-> <<>>, clean |-> TRUE])
    IN  [clean |-> st.clean /\ st.mode = "plain",
         words |-> IF st.inword THEN Append(st.words, st.word) ELSE st.words]

\* The words of the command for the given texts, each text one whole word.
ExpectedWords(args) ==
    <<<<"A","N","T","H","R","O","P","I","C","_","A","P","I","_","K","E","Y",
        "=">> \o args.api_key,
      <<"c","l","a","u","d","e">>,
      <<"-","-","d","a","n","g","e","r","o","u","s","l","y","-","s","k","i",
        "p","-","p","e","r","m","i","s","s","i","o","n","s">>,
      <<"-","p">>,
      args.prompt,
      <<"-","-","o","u","t","p","u","t","-","f","o","r","m","a","t">>,
      <<"s","t","r","e","a","m","-","j","s","o","n">>,
      <<"-","-","i","n","c","l","u","d","e","-","p","a","r","t","i","a","l",
        "-","m","e","s","s","a","g","e","s">>>>
    \o (IF Truthy(args.instructions)
        THEN <<<<"-","-","a","p","p","e","n","d","-","s","y","s","t","e","m",
                 "-","p","r","o","m","p","t">>, args.instructions.str>>
        ELSE <<>>)
    \o (IF args.continue_conversation THEN <<ContinueSwitch>> ELSE <<>>)

\* C16: whatever the prompt, the instructions and the credential are, the
\* shell reads the rendered command as one simple command without operator or
\* expansion, whose words are the fixed ones and each text as one whole word.
C16_NoInjection ==
    ~cmd.isNone =>
        LET lex == ShellLex(cmd.str)
        IN  /\ lex.clean
            /\ lex.words = ExpectedWords(render_args)

\* A command was rendered from a prompt that tries to leave its quotes, a
\* credential with an expansion and instructions holding a newline.
C16_Witness ==
    /\ ~cmd.isNone
    /\ render_args.prompt = <<"'", ";", "x", "'">>
    /\ render_args.api_key = <<"$", "x">>
    /\ render_args.instructions = Str(<<"a", NL, "b">>)
    /\ render_args.continue_conversation

\* C17: a line of stdout that is not a record, a JSON value that is no
\* object included, is dropped: it raises nothing, does not end the sequence
\* before the command completes, and the records after it are yielded.
C17_NoLineAborts ==
    /\ outcome # "AttributeError"
    /\ outcome = "ended" => log_task \in {"done", "failed"}
    /\ outcome = "ended" /\ log_task = "done" => DataOf(events) = RecordsOf(out)

\* C18: when the call that follows the command's logs fails, the consumer
\* gets an error, not the normal end of the sequence.
C18_LogFailureSurfaces ==
    pc = "idle" /\ log_task = "failed" => outcome # "ended"

\* C19: a consumer that reads to the end has been given every record of a
\* complete line the command wrote; at the end no record is left in the queue
\* and no complete line in the buffer.
C19_NothingLostAtEnd ==
    outcome = "ended" /\ log_task = "done" =>
        /\ DataOf(events) = RecordsOf(out)
        /\ queue = <<>>
        /\ Find(Join(buffer), NL) = 0

\* C20: output is fetched from the remote command only when the consumer
\* has asked for the next event: nothing is fetched while the consumer holds
\* an event and has not asked for another.
C20_PullBased ==
    [][pc = "yielded" => opos' = opos]_vars

\* The type an event of the record rec must have: the value of its member
\* type, or the string unknown when it has none.
TypeOf(rec) ==
    LET ts == {p \in rec.val : p[1] = "type"}
    IN  IF ts = {} THEN JStr("unknown") ELSE (CHOOSE p \in ts : TRUE)[2]

C22_ExecuteOnCreatedSession ==
    [][executed_commands' # executed_commands
          => executed_commands'[Len(executed_commands')].session_id
                 \in live_sessions]_vars

\* The text that follows the last newline of a text.
RECURSIVE AfterLastNewline(_)
AfterLastNewline(text) ==
    LET i == Find(text, NL)
    IN  IF i = 0 THEN text
        ELSE AfterLastNewline(SubSeq(text, i + 1, Len(text)))

\* C23: the buffer holds the stdout text delivered after the last newline
\* and no newline; what was queued, and so what was yielded, comes from the
\* lines ended by a newline only, never from the text after the last one.
C23_ResidualBuffer ==
    /\ Join(buffer) = AfterLastNewline(Delivered)
    /\ Find(Join(buffer), NL) = 0
    /\ put = DecodedOf(Delivered)
    /\ Len(events) <= Len(DecodedOf(out))

\* The command wrote the record {} without a newline after one line and
\* completed: the call ended with the record still in the buffer and
\* without an event for it.
C23_Witness ==
    /\ out = <<"{", "T", "}", NL, "{", "}">>
    /\ outcome = "ended"
    /\ log_task = "done"
    /\ Join(buffer) = <<"{", "}">>
    /\ Len(events) = 1
    /\ queue = <<>>

\* C24: what a call queues and yields comes from its own command's stdout
\* only, whatever the call before left behind: a call starts with an empty
\* buffer and an empty queue, and no step changes the handle's credential.
C24_PerCallAssembly ==
    /\ [](/\ put = DecodedOf(Delivered)
          /\ Join(buffer) = AfterLastNewline(Delivered)
          /\ IsPrefix(DataOf(events), RecordsOf(out))
          /\ outcome = "ended" /\ log_task = "done"
                => DataOf(events) = RecordsOf(out))
    /\ [][/\ anthropic_api_key' = anthropic_api_key
          /\ Len(calls') > Len(calls) => queue' = <<>> /\ buffer' = <<>>]_vars

\* The first call was left with text in its buffer and a record in its
\* queue; the second call ended with the events of its own stdout.
C24_Witness ==
    /\ Len(calls) = 2
    /\ calls[2].left.text
    /\ calls[2].left.record
    /\ outcome = "ended"
    /\ log_task = "done"
    /\ events # <<>>
    /\ DataOf(events) = RecordsOf(out)

====
